---- MODULE Spec2Model ----
(***************************************************************************)
(* Model of src/main.js: a page script that creates two SVG containers,    *)
(* loads movies.csv with d3.csv and, in the .then callback, coerces the    *)
(* fields, aggregates total gross by year (line chart) and average score   *)
(* by director (bar chart), builds the scales and draws both charts.       *)
(*                                                                         *)
(* JavaScript values are modelled as records [k, n, d]: k = "num" is the   *)
(* rational n/d (d > 0, lowest terms), k = "nan" is NaN, k = "undef" is    *)
(* undefined and k = "throw" is an abrupt completion (a thrown error).     *)
(* CSV field texts are sequences of characters.                            *)
(***************************************************************************)
EXTENDS Integers, Sequences, FiniteSets, TLC

VARIABLES pc, promise, steps, lineChart, barChart, file, data,
          lineCleanData, lineData, xDomain, yDomain, path, xTicks, svgLine,
          barCleanData, barFinalArr, barYDomain, bandwidth, bars, svgBar

vars == <<pc, promise, steps, lineChart, barChart, file, data,
          lineCleanData, lineData, xDomain, yDomain, path, xTicks, svgLine,
          barCleanData, barFinalArr, barYDomain, bandwidth, bars, svgBar>>

\* Longest input file (number of data rows) explored.
MaxLen == 3

-----------------------------------------------------------------------------
(* Numbers *)

Abs(i) == IF i < 0 THEN -i ELSE i

RECURSIVE GCD(_, _)
GCD(a, b) == IF b = 0 THEN a ELSE GCD(b, a % b)

\* the rational n/d, d # 0, in lowest terms with a positive denominator
Rat(n, d) ==
    LET g == GCD(Abs(n), Abs(d))
        s == IF d < 0 THEN -1 ELSE 1
    IN  [k |-> "num", n |-> s * (n \div g), d |-> s * (d \div g)]

Num(i) == [k |-> "num", n |-> i, d |-> 1]
NaN == [k |-> "nan", n |-> 0, d |-> 1]
Undefined == [k |-> "undef", n |-> 0, d |-> 1]
Throw == [k |-> "throw", n |-> 0, d |-> 1]

IsNum(v) == v.k = "num"
Threw(v) == v.k = "throw"

\* unary plus / Number(v) on a value: undefined becomes NaN
Number(v) == IF IsNum(v) THEN v ELSE IF Threw(v) THEN Throw ELSE NaN

Add(a, b) ==
    IF Threw(a) \/ Threw(b) THEN Throw
    ELSE IF IsNum(a) /\ IsNum(b) THEN Rat(a.n * b.d + b.n * a.d, a.d * b.d)
    ELSE NaN

Sub(a, b) ==
    IF Threw(a) \/ Threw(b) THEN Throw
    ELSE IF IsNum(a) /\ IsNum(b) THEN Rat(a.n * b.d - b.n * a.d, a.d * b.d)
    ELSE NaN

Mul(a, b) ==
    IF Threw(a) \/ Threw(b) THEN Throw
    ELSE IF IsNum(a) /\ IsNum(b) THEN Rat(a.n * b.n, a.d * b.d)
    ELSE NaN

\* a / b for b # 0 (the script never divides by a zero it has not tested)
Div(a, b) ==
    IF Threw(a) \/ Threw(b) THEN Throw
    ELSE IF IsNum(a) /\ IsNum(b) /\ b.n # 0 THEN Rat(a.n * b.d, a.d * b.n)
    ELSE NaN

\* a < b, a >= b as JavaScript compares: false when either side is NaN
Lt(a, b) == IsNum(a) /\ IsNum(b) /\ a.n * b.d < b.n * a.d
Ge(a, b) == IsNum(a) /\ IsNum(b) /\ a.n * b.d >= b.n * a.d

\* v != null (loose): false only for null and undefined
NotNull(v) == v.k # "undef"

-----------------------------------------------------------------------------
(* Field texts and their coercion *)

Digits == <<"0", "1", "2", "3", "4", "5", "6", "7", "8", "9">>
IsDigit(c) == \E i \in 1..Len(Digits) : Digits[i] = c
DigitVal(c) == (CHOOSE i \in 1..Len(Digits) : Digits[i] = c) - 1

RECURSIVE ParseDigits(_)
ParseDigits(s) ==
    IF s = <<>> THEN 0
    ELSE 10 * ParseDigits(SubSeq(s, 1, Len(s) - 1)) + DigitVal(s[Len(s)])

\* +text: the empty string is 0, a decimal numeral is its value, any other
\* text is NaN
ToNumber(text) ==
    IF text = <<>> THEN Num(0)
    ELSE IF \A i \in 1..Len(text) : IsDigit(text[i]) THEN Num(ParseDigits(text))
    ELSE NaN

\* data.forEach(d => {...}): the four derived fields of a row
Coerce(row) ==
    [gross    |-> ToNumber(row.gross),
     score    |-> ToNumber(row.imdb_score),
     year     |-> ToNumber(row.title_year),
     director |-> row.director_name]

CoerceAll(rows) == [i \in 1..Len(rows) |-> Coerce(rows[i])]

-----------------------------------------------------------------------------
(* Layout constants *)

MarginTop == 50
MarginRight == 30
MarginBottom == 60
MarginLeft == 70
width == 800 - MarginLeft - MarginRight
height == 400 - MarginTop - MarginBottom

\* lower bound of the analysis window, and of the x domain
StartYear == 2010
\* number of directors kept by slice(0, 6)
TopN == 6

-----------------------------------------------------------------------------
(* d3-array helpers, as the script calls them *)

Range(s) == {s[i] : i \in 1..Len(s)}

\* the distinct elements of ks in order of first occurrence: the key order
\* of the Map that d3.rollup fills
RECURSIVE FirstOccurrences(_)
FirstOccurrences(ks) ==
    IF ks = <<>> THEN <<>>
    ELSE LET r == FirstOccurrences(SubSeq(ks, 1, Len(ks) - 1))
         IN  IF ks[Len(ks)] \in Range(r) THEN r ELSE Append(r, ks[Len(ks)])

\* d3.sum: adds the values that are numbers, skipping NaN (and 0)
RECURSIVE d3sum(_)
d3sum(vs) ==
    IF vs = <<>> THEN Num(0)
    ELSE LET r == d3sum(SubSeq(vs, 1, Len(vs) - 1))
             v == Number(vs[Len(vs)])
         IN  IF IsNum(v) /\ v.n # 0 THEN Add(r, v) ELSE r

\* the values d3.mean, d3.max and d3.min look at: not null, not NaN
Observed(vs) == SelectSeq(vs, LAMBDA v : NotNull(v) /\ Ge(Number(v), Number(v)))

\* d3.mean: mean of the observed values, undefined when there is none
d3mean(vs) ==
    LET obs == Observed(vs)
    IN  IF obs = <<>> THEN Undefined ELSE Div(d3sum(obs), Num(Len(obs)))

\* d3.max / d3.min: undefined when no value is observed
d3max(vs) ==
    LET obs == Range(Observed(vs))
    IN  IF obs = {} THEN Undefined
        ELSE CHOOSE m \in obs : \A v \in obs : Ge(m, v)

d3min(vs) ==
    LET obs == Range(Observed(vs))
    IN  IF obs = {} THEN Undefined
        ELSE CHOOSE m \in obs : \A v \in obs : Ge(v, m)

\* new Array(n) accepts only an integer length 0 <= n < 2^32 (every length
\* the model computes is far below the upper limit)
ValidArrayLength(n) == IsNum(n) /\ n.d = 1 /\ n.n >= 0

\* d3.range(start, stop) with step 1, as [threw, values]:
\* n = Math.max(0, Math.ceil(stop - start)) | 0, then new Array(n)
d3range(start, stop) ==
    LET a == Number(start)
        b == Number(stop)
        diff == Sub(b, a)
        ceil == IF IsNum(diff)
                THEN Num(IF diff.n % diff.d = 0 THEN diff.n \div diff.d
                         ELSE (diff.n \div diff.d) + 1)
                ELSE diff
        n == IF Threw(ceil) THEN Throw
             ELSE IF IsNum(ceil) /\ ceil.n > 0 THEN ceil ELSE Num(0)
    IN  IF ~ValidArrayLength(n) THEN [threw |-> TRUE, values |-> <<>>]
        ELSE [threw |-> FALSE, values |-> [i \in 1..n.n |-> Add(a, Num(i - 1))]]

\* -1, 0 or 1 as Array.prototype.sort reads a comparator's result (NaN is +0)
Sign(v) == IF ~IsNum(v) \/ v.n = 0 THEN 0 ELSE IF v.n < 0 THEN -1 ELSE 1

\* the comparator orders the elements of arr consistently (ECMAScript's
\* "consistent comparator"): = is an equivalence, < is transitive and
\* agrees with it
Consistent(arr, cmp) ==
    \A S \in {Range(arr)} : \A c \in {[a \in S, b \in S |-> Sign(cmp[a, b])]} :
        /\ \A a \in S : c[a, a] = 0
        /\ \A a, b \in S : c[a, b] = -c[b, a]
        /\ \A a, b, e \in S :
              /\ (c[a, b] = 0 /\ c[b, e] = 0) => c[a, e] = 0
              /\ (c[a, b] < 0 /\ c[b, e] < 0) => c[a, e] < 0
              /\ (c[a, b] < 0 /\ c[b, e] = 0) => c[a, e] < 0
              /\ (c[a, b] = 0 /\ c[b, e] < 0) => c[a, e] < 0

IndexPermutations(n) == {p \in [1..n -> 1..n] : \A i, j \in 1..n : p[i] = p[j] => i = j}

\* the orders of n elements that sort may leave, as permutations of the
\* indices, given the table c of the comparator's signs on index pairs: the
\* stable order when the comparator is consistent, any order otherwise
SortPermutations(n, c, consistent) ==
    {p \in IndexPermutations(n) :
        consistent =>
            \A i, j \in 1..n : i < j =>
                \/ c[p[i], p[j]] < 0
                \/ c[p[i], p[j]] = 0 /\ p[i] < p[j]}

\* arr.sort(cmp): the stable sort when cmp is a consistent comparator, and
\* otherwise an implementation-defined order, i.e. any permutation of arr
SortOutcomes(arr, cmp) ==
    LET n == Len(arr)
    IN  UNION {{[i \in 1..n |-> a[p[i]]] : p \in SortPermutations(n, c, ok)} :
               <<a, c, ok>> \in {<<arr,
                                  [i \in 1..n, j \in 1..n |-> Sign(cmp[arr[i], arr[j]])],
                                  Consistent(arr, cmp)>>}}

-----------------------------------------------------------------------------
(* Line chart data: total gross by year *)

\* variant of LineKeep: the filter with d.year > 2010
LineKeepAfterStart(d) ==
    /\ NotNull(d.gross)
    /\ NotNull(d.year)
    /\ Lt(Num(StartYear), d.year)

LineKeep(d) ==
    /\ NotNull(d.gross)
    /\ NotNull(d.year)
    /\ Ge(d.year, Num(StartYear))

LineCleanData(dt) == SelectSeq(dt, LineKeep)

\* d3.rollup(lineCleanData, v => d3.sum(v, d => d.gross), d => d.year):
\* the entries of the Map, in insertion order
SumGrossByYear(clean) ==
    LET ks == FirstOccurrences([i \in 1..Len(clean) |-> clean[i].year])
        group(y) == SelectSeq(clean, LAMBDA d : d.year = y)
        gross(g) == [i \in 1..Len(g) |-> g[i].gross]
    IN  [i \in 1..Len(ks) |-> <<ks[i], d3sum(gross(group(ks[i])))>>]

\* (a, b) => a.year - b.year, on the elements of arr
YearCmp(arr) == [a \in Range(arr), b \in Range(arr) |-> Sub(a.year, b.year)]

\* Array.from(sumGrossByYear, ([year, gross]) => ({year, gross}))
LineEntries(clean) ==
    LET m == SumGrossByYear(clean)
    IN  [i \in 1..Len(m) |-> [year |-> m[i][1], gross |-> m[i][2]]]

\* variant of LineDataOutcomes: the array is used as Array.from built it,
\* without the sort
LineDataUnsorted(clean) == {LineEntries(clean)}

\* .sort((a, b) => a.year - b.year)
LineDataOutcomes(clean) ==
    SortOutcomes(LineEntries(clean), YearCmp(LineEntries(clean)))

Years(ld) == [i \in 1..Len(ld) |-> ld[i].year]
Totals(ld) == [i \in 1..Len(ld) |-> ld[i].gross]

-----------------------------------------------------------------------------
(* Scales *)

\* variant of ScaleLinear: a domain of one point maps every number to the
\* start of the range
ScaleLinearFromStart(dom, rng, x) ==
    LET span == Sub(dom[2], dom[1])
        t == IF IsNum(span) /\ span.n # 0 THEN Div(Sub(Number(x), dom[1]), span)
             ELSE IF IsNum(span) THEN Num(0)
             ELSE NaN
    IN  IF ~IsNum(Number(x)) THEN Undefined
        ELSE Add(Mul(rng[1], Sub(Num(1), t)), Mul(rng[2], t))

\* d3.scaleLinear().domain(dom).range(rng) applied to x.  A value that is
\* not a number maps to the scale's unknown value (undefined); a domain of
\* one point maps every number to the middle of the range, and a domain
\* with a NaN bound maps every number to NaN.
ScaleLinear(dom, rng, x) ==
    LET span == Sub(dom[2], dom[1])
        t == IF IsNum(span) /\ span.n # 0 THEN Div(Sub(Number(x), dom[1]), span)
             ELSE IF IsNum(span) THEN Rat(1, 2)
             ELSE NaN
    IN  IF ~IsNum(Number(x)) THEN Undefined
        ELSE Add(Mul(rng[1], Sub(Num(1), t)), Mul(rng[2], t))

\* .domain([2010, d3.max(lineData, d => d.year)]): the bounds are coerced
\* to numbers, so an undefined maximum becomes NaN
XDomain(ld) == <<Num(StartYear), Number(d3max(Years(ld)))>>
YDomain(ld) == <<Num(0), Number(d3max(Totals(ld)))>>
XRange == <<Num(0), Num(width)>>
YRange == <<Num(height), Num(0)>>

xYear(ld, x) == ScaleLinear(XDomain(ld), XRange, x)
yGross(ld, y) == ScaleLinear(YDomain(ld), YRange, y)

\* the points of d3.line().x(d => xYear(d.year)).y(d => yGross(d.gross))
LinePath(ld) ==
    [i \in 1..Len(ld) |-> <<xYear(ld, ld[i].year), yGross(ld, ld[i].gross)>>]

\* variant of TickStart: lineData[0].year, which throws a TypeError when
\* lineData is empty
TickStartFirst(ld) == IF ld = <<>> THEN Throw ELSE ld[1].year

\* first and last year handed to d3.range for the x axis ticks
TickStart(ld) == d3min(Years(ld))
TickStop(ld) == Add(d3max(Years(ld)), Num(1))
TickValues(ld) == d3range(TickStart(ld), TickStop(ld))

\* d3.scaleBand().domain(names).range([0, width]).padding(0.1)
BandStep(n) ==
    LET slots == Add(Num(n), Rat(1, 10))
    IN  Div(Num(width), IF Ge(slots, Num(1)) THEN slots ELSE Num(1))
BandStart(n) ==
    Mul(Sub(Num(width), Mul(BandStep(n), Sub(Num(n), Rat(1, 10)))), Rat(1, 2))
Bandwidth(n) == Mul(BandStep(n), Rat(9, 10))
barXScale(n, i) == Add(BandStart(n), Mul(BandStep(n), Num(i - 1)))

-----------------------------------------------------------------------------
(* Bar chart data: average score by director, top 6 *)

BarKeep(d) ==
    /\ d.director # ""
    /\ NotNull(d.score)

BarCleanData(dt) == SelectSeq(dt, BarKeep)

\* d3.rollup(barCleanData, v => d3.mean(v, d => d.score), d => d.director)
BarMap(clean) ==
    LET ks == FirstOccurrences([i \in 1..Len(clean) |-> clean[i].director])
        group(k) == SelectSeq(clean, LAMBDA d : d.director = k)
        score(g) == [i \in 1..Len(g) |-> g[i].score]
    IN  [i \in 1..Len(ks) |-> <<ks[i], d3mean(score(group(ks[i])))>>]

\* (a, b) => b.score - a.score, on the elements of arr
ScoreCmp(arr) == [a \in Range(arr), b \in Range(arr) |-> Sub(b.score, a.score)]

\* slice(0, 6)
Slice(s) == SubSeq(s, 1, IF Len(s) < TopN THEN Len(s) ELSE TopN)

\* Array.from(barMap, ([director, score]) => ({director, score}))
BarEntries(clean) ==
    LET m == BarMap(clean)
    IN  [i \in 1..Len(m) |-> [director |-> m[i][1], score |-> m[i][2]]]

\* .sort((a, b) => b.score - a.score).slice(0, 6)
BarFinalOutcomes(clean) ==
    {Slice(s) : s \in SortOutcomes(BarEntries(clean), ScoreCmp(BarEntries(clean)))}

Scores(bf) == [i \in 1..Len(bf) |-> bf[i].score]

BarYDomain(bf) == <<Num(0), Number(d3max(Scores(bf)))>>
barYScale(bf, y) == ScaleLinear(BarYDomain(bf), YRange, y)

\* one rect per entry: x, y and height attributes
Bars(bf) ==
    [i \in 1..Len(bf) |->
        [x |-> barXScale(Len(bf), i),
         y |-> barYScale(bf, bf[i].score),
         h |-> Sub(Num(height), barYScale(bf, bf[i].score))]]

-----------------------------------------------------------------------------
(* Input files *)

Row(g, s, y, d) ==
    [gross |-> g, imdb_score |-> s, title_year |-> y, director_name |-> d]

Blank == <<>>
NotANumber == <<"x">>
T6 == <<"6">>
T8 == <<"8">>
T9 == <<"9">>
T50 == <<"5", "0">>
T100 == <<"1", "0", "0">>
T2009 == <<"2", "0", "0", "9">>
T2010 == <<"2", "0", "1", "0">>
T2011 == <<"2", "0", "1", "1">>

\* the rows a file is made of: numeric, empty and non-numeric texts in each
\* coerced column, years on both sides of 2010, named and unnamed directors
Rows ==
    { Row(T100, T8, T2010, "A"),
      Row(T50, Blank, T2010, ""),
      Row(Blank, Blank, T2010, ""),
      Row(NotANumber, Blank, T2011, ""),
      Row(T100, T9, T2011, "B"),
      Row(T100, Blank, T2009, ""),
      Row(T50, Blank, NotANumber, ""),
      Row(Blank, T6, Blank, "A"),
      Row(Blank, T8, Blank, "B"),
      Row(Blank, T9, Blank, ""),
      Row(Blank, Blank, Blank, "A"),
      Row(Blank, NotANumber, Blank, "C") }

Files == UNION {[1..n -> Rows] : n \in 0..MaxLen}

\* Longest file of the runs that look at tied directors.
MaxTieLen == 4

\* rows for four directors: P averages 6, B and D both average 8 and C has
\* no numeric score
TieRows ==
    { Row(Blank, T6, Blank, "P"),
      Row(Blank, T8, Blank, "B"),
      Row(Blank, T8, Blank, "D"),
      Row(Blank, NotANumber, Blank, "C"),
      Row(T100, T9, T2010, "B") }

TieFiles == UNION {[1..n -> TieRows] : n \in 0..MaxTieLen}

-----------------------------------------------------------------------------
(* The script *)

LineMarks == <<"path", "g.axisX", "g.axisY", "text.title", "text.xlabel", "text.ylabel">>
BarMarks == <<"rects", "g.axisX", "g.axisY", "text.title", "text.xlabel", "text.ylabel">>

Init ==
    /\ pc = "start"
    /\ promise = "none"
    /\ steps = <<>>
    /\ lineChart = <<>>
    /\ barChart = <<>>
    /\ file = <<>>
    /\ data = <<>>
    /\ lineCleanData = <<>>
    /\ lineData = <<>>
    /\ xDomain = <<>>
    /\ yDomain = <<>>
    /\ path = <<>>
    /\ xTicks = <<>>
    /\ svgLine = <<>>
    /\ barCleanData = <<>>
    /\ barFinalArr = <<>>
    /\ barYDomain = <<>>
    /\ bandwidth = Undefined
    /\ bars = <<>>
    /\ svgBar = <<>>

\* top level of the script: append a <g> to each chart's <svg> and start
\* loading movies.csv; .then(callback) returns a pending promise
Script ==
    /\ pc = "start"
    /\ pc' = "loading"
    /\ lineChart' = Append(lineChart, "g")
    /\ barChart' = Append(barChart, "g")
    /\ promise' = "pending"
    /\ UNCHANGED <<steps, file, data, lineCleanData, lineData, xDomain, yDomain,
                   path, xTicks, svgLine, barCleanData, barFinalArr, barYDomain,
                   bandwidth, bars, svgBar>>

\* the line chart half of the callback raised while building the x axis
LineThrows(ld) == Threw(TickStart(ld)) \/ Threw(TickStop(ld)) \/ TickValues(ld).threw

\* the load fulfils with the parsed rows and the callback runs to its end,
\* or to the statement that throws
LoadResolveFrom(files) ==
    /\ pc = "loading"
    /\ \E rows \in files :
       LET dt == CoerceAll(rows)
           lc == LineCleanData(dt)
           bc == BarCleanData(dt)
       IN  \E ld \in LineDataOutcomes(lc), bf \in BarFinalOutcomes(bc) :
           /\ file' = rows
           /\ data' = dt
           /\ lineCleanData' = lc
           /\ lineData' = ld
           /\ xDomain' = XDomain(ld)
           /\ yDomain' = YDomain(ld)
           /\ path' = LinePath(ld)
           /\ IF LineThrows(ld)
              THEN /\ xTicks' = <<>>
                   /\ svgLine' = <<"path", "g">>
                   /\ steps' = <<"coerce", "lineData", "lineScales">>
                   /\ promise' = "rejected"
                   /\ UNCHANGED <<barCleanData, barFinalArr, barYDomain,
                                  bandwidth, bars, svgBar>>
              ELSE /\ xTicks' = TickValues(ld).values
                   /\ svgLine' = LineMarks
                   /\ barCleanData' = bc
                   /\ barFinalArr' = bf
                   /\ barYDomain' = BarYDomain(bf)
                   /\ bandwidth' = Bandwidth(Len(bf))
                   /\ bars' = Bars(bf)
                   /\ svgBar' = BarMarks
                   /\ steps' = <<"coerce", "lineData", "lineScales", "lineChart",
                                 "barData", "barScales", "barChart">>
                   /\ promise' = "fulfilled"
    /\ pc' = "done"
    /\ UNCHANGED <<lineChart, barChart>>

\* variant of LoadReject: a rejection handler that still draws the axes
\* and labels of both charts
LoadRejectDrawsFrame ==
    /\ pc = "loading"
    /\ pc' = "failed"
    /\ promise' = "rejected"
    /\ steps' = <<"lineChart", "barChart">>
    /\ svgLine' = LineMarks
    /\ svgBar' = BarMarks
    /\ UNCHANGED <<lineChart, barChart, file, data, lineCleanData, lineData,
                   xDomain, yDomain, path, xTicks, barCleanData, barFinalArr,
                   barYDomain, bandwidth, bars>>

\* the load fails: .then has no rejection handler, so the callback is not
\* called and the promise it returned rejects with the load's error
LoadReject ==
    /\ pc = "loading"
    /\ pc' = "failed"
    /\ promise' = "rejected"
    /\ UNCHANGED <<steps, lineChart, barChart, file, data, lineCleanData,
                   lineData, xDomain, yDomain, path, xTicks, svgLine,
                   barCleanData, barFinalArr, barYDomain, bandwidth, bars, svgBar>>

LoadResolve == LoadResolveFrom(Files)

Next == Script \/ LoadResolve \/ LoadReject

Spec == Init /\ [][Next]_vars

\* the same script run on the files of TieFiles: longer files over four
\* directors, two of them tied
TieLoadResolve == LoadResolveFrom(TieFiles)

TieNext == Script \/ TieLoadResolve \/ LoadReject

TieSpec == Init /\ [][TieNext]_vars

-----------------------------------------------------------------------------
(* What the input file says, read independently of the pipelines *)

\* a field text that holds no number: empty or not a numeral
Missing(text) == text = <<>> \/ \E i \in 1..Len(text) : ~IsDigit(text[i])

QualifiesForLine(r) ==
    /\ ~Missing(r.gross)
    /\ ~Missing(r.title_year)
    /\ ParseDigits(r.title_year) >= StartYear

RECURSIVE ExpectedGross(_)
ExpectedGross(rows) ==
    IF rows = <<>> THEN 0
    ELSE ExpectedGross(SubSeq(rows, 1, Len(rows) - 1))
         + (IF QualifiesForLine(rows[Len(rows)])
            THEN ParseDigits(rows[Len(rows)].gross) ELSE 0)

RECURSIVE TotalOf(_)
TotalOf(vs) ==
    IF vs = <<>> THEN Num(0)
    ELSE Add(TotalOf(SubSeq(vs, 1, Len(vs) - 1)), vs[Len(vs)])

ScoredRows(rows, dir) ==
    SelectSeq(rows, LAMBDA r : r.director_name = dir /\ ~Missing(r.imdb_score))

RECURSIVE ScoreSum(_)
ScoreSum(rows) ==
    IF rows = <<>> THEN 0
    ELSE ScoreSum(SubSeq(rows, 1, Len(rows) - 1)) + ParseDigits(rows[Len(rows)].imdb_score)

ExpectedMean(rows, dir) ==
    LET g == ScoredRows(rows, dir)
    IN  IF g = <<>> THEN Undefined ELSE Rat(ScoreSum(g), Len(g))

QualifyingDirectors(rows) ==
    {dir \in {rows[i].director_name : i \in 1..Len(rows)} :
        dir # "" /\ ScoredRows(rows, dir) # <<>>}

Directors(bf) == {bf[i].director : i \in 1..Len(bf)}

\* position of a director's first record among the records the filter kept
FirstSeen(clean, dir) ==
    CHOOSE i \in 1..Len(clean) :
        /\ clean[i].director = dir
        /\ \A j \in 1..(i - 1) : clean[j].director # dir

Completed == pc = "done" /\ promise = "fulfilled"

-----------------------------------------------------------------------------
(* Claims *)

\* C1: the yearly revenue series has strictly increasing years: each
\* entry's year is greater than the year of the entry before it, so no year
\* appears twice.
C1_YearsStrictlyIncreasing ==
    pc = "done" =>
        \A i \in 1..(Len(lineData) - 1) : Lt(lineData[i].year, lineData[i + 1].year)

\* a run whose input repeats a year and lists a later year before an
\* earlier one
C1_Witness ==
    /\ pc = "done"
    /\ Len(lineData) = 2
    /\ Len(lineCleanData) = 3
    /\ Lt(lineCleanData[2].year, lineCleanData[1].year)

\* C2: the gross totals of the yearly series add up to the gross of exactly
\* the input records that have a gross, have a year and whose year is at
\* least 2010.
C2_TotalsAddUp ==
    pc = "done" => TotalOf(Totals(lineData)) = Num(ExpectedGross(file))

\* two qualifying records and one record with a gross outside the window
C2_Witness ==
    /\ pc = "done"
    /\ Len(file) = 3
    /\ Len(lineData) = 2
    /\ \E i \in 1..3 : ~QualifiesForLine(file[i]) /\ ~Missing(file[i].gross)
    /\ ExpectedGross(file) > 0

\* C3: a year appears in the yearly series only if at least one record of
\* that year has a gross that is not missing.
C3_YearNeedsAGross ==
    pc = "done" =>
        \A i \in 1..Len(lineData) :
            \E j \in 1..Len(file) :
                /\ ToNumber(file[j].title_year) = lineData[i].year
                /\ ~Missing(file[j].gross)

\* C4: the director series has at most 6 entries, each score is a number
\* and the scores are non-increasing.
C4_SortedNumericTop6 ==
    Completed =>
        /\ Len(barFinalArr) <= TopN
        /\ \A i \in 1..Len(barFinalArr) : IsNum(barFinalArr[i].score)
        /\ \A i \in 1..(Len(barFinalArr) - 1) :
              Ge(barFinalArr[i].score, barFinalArr[i + 1].score)

\* C5: with n qualifying directors (non-empty name, at least one score that
\* is not missing) the series has exactly min(6, n) entries, no director
\* twice, and every qualifying director left out averages no more than
\* every director kept.
C5_ExactlyTheTopQualifying ==
    Completed =>
        LET q == QualifyingDirectors(file)
            n == Cardinality(q)
        IN  /\ Len(barFinalArr) = (IF n < TopN THEN n ELSE TopN)
            /\ Cardinality(Directors(barFinalArr)) = Len(barFinalArr)
            /\ \A out \in q \ Directors(barFinalArr) :
                  \A i \in 1..Len(barFinalArr) :
                      Ge(barFinalArr[i].score, ExpectedMean(file, out))

\* C6: every reported score is the arithmetic mean of the scores of the
\* records with that director whose score is not missing.
C6_ScoreIsMeanOfPresentScores ==
    Completed =>
        \A i \in 1..Len(barFinalArr) :
            barFinalArr[i].score = ExpectedMean(file, barFinalArr[i].director)

\* C7: coercion, aggregation, scales and drawing happen only once the load
\* has succeeded; when the load fails none of them has run, the promise the
\* script built is rejected and neither chart holds a drawn element.
C7_NothingBeforeLoadSucceeds ==
    /\ pc \in {"start", "loading", "failed"} =>
          /\ steps = <<>>
          /\ data = <<>>
          /\ lineCleanData = <<>> /\ lineData = <<>>
          /\ barCleanData = <<>> /\ barFinalArr = <<>>
          /\ xDomain = <<>> /\ yDomain = <<>> /\ barYDomain = <<>>
          /\ path = <<>> /\ xTicks = <<>> /\ bars = <<>>
          /\ svgLine = <<>> /\ svgBar = <<>>
    /\ pc = "failed" => promise = "rejected"
    /\ steps # <<>> => pc = "done"

\* the load has failed after the containers were created
C7_Witness ==
    /\ pc = "failed"
    /\ promise = "rejected"
    /\ lineChart = <<"g">>
    /\ barChart = <<"g">>

\* C8: when no record passes a filter that aggregator's result is empty,
\* and the run still completes: scales, path, ticks and band scale are
\* built from the empty result without an error and both charts get all
\* their elements.
C8_EmptyResultIsNoError ==
    pc = "done" =>
        /\ LineCleanData(data) = <<>> => lineData = <<>>
        /\ lineData = <<>> =>
              /\ promise = "fulfilled"
              /\ path = <<>> /\ xTicks = <<>>
              /\ svgLine = LineMarks /\ svgBar = BarMarks
        /\ BarCleanData(data) = <<>> =>
              /\ promise = "fulfilled"
              /\ barFinalArr = <<>> /\ bars = <<>>
              /\ svgLine = LineMarks /\ svgBar = BarMarks

\* rows were loaded, none passed the yearly filter, and the bar chart has
\* bars
C8_Witness ==
    /\ pc = "done"
    /\ file # <<>>
    /\ lineCleanData = <<>>
    /\ steps[Len(steps)] = "barChart"
    /\ bars # <<>>

\* C9: directors with equal average score appear in the order in which they
\* first appear in the filtered records, and that order decides which of
\* them are kept.
C9_TiesInFirstSeenOrder ==
    Completed =>
        /\ \A i, j \in 1..Len(barFinalArr) :
              (i < j /\ IsNum(barFinalArr[i].score)
                     /\ barFinalArr[i].score = barFinalArr[j].score) =>
                  FirstSeen(barCleanData, barFinalArr[i].director)
                      < FirstSeen(barCleanData, barFinalArr[j].director)
        /\ \A i \in 1..Len(barFinalArr) :
              \A out \in {e \in Range(BarEntries(barCleanData)) :
                            e.director \notin Directors(barFinalArr)} :
                  (IsNum(out.score) /\ out.score = barFinalArr[i].score) =>
                      FirstSeen(barCleanData, barFinalArr[i].director)
                          < FirstSeen(barCleanData, out.director)

\* values a scale is probed with
Probes == {Num(0), Num(7), Num(StartYear), Num(StartYear + 1), Rat(15, 2), Num(150)}

Middle(rng) == Div(Add(rng[1], rng[2]), Num(2))

\* C10 (as amended): a linear scale whose domain is a single point maps
\* every number to the middle of its range, (rangeMin + rangeMax) / 2, and
\* every coordinate drawn from a number lies there.
C10_SinglePointDomainMapsToMiddle ==
    Completed =>
        /\ xDomain[1] = xDomain[2] =>
              /\ \A v \in Probes : ScaleLinear(xDomain, XRange, v) = Middle(XRange)
              /\ \A i \in 1..Len(path) : path[i][1] = Middle(XRange)
        /\ yDomain[1] = yDomain[2] =>
              /\ \A v \in Probes : ScaleLinear(yDomain, YRange, v) = Middle(YRange)
              /\ \A i \in 1..Len(path) : path[i][2] = Middle(YRange)
        /\ barYDomain[1] = barYDomain[2] =>
              /\ \A v \in Probes : ScaleLinear(barYDomain, YRange, v) = Middle(YRange)
              /\ \A i \in 1..Len(bars) :
                    IsNum(barFinalArr[i].score) => bars[i].y = Middle(YRange)

\* C10 (as claimed): a linear scale whose domain is a single point maps
\* every value to its range minimum, the range bound that the start of the
\* domain maps to.
C10_SinglePointDomainMapsToRangeMin ==
    Completed =>
        /\ xDomain[1] = xDomain[2] =>
              \A v \in Probes : ScaleLinear(xDomain, XRange, v) = XRange[1]
        /\ yDomain[1] = yDomain[2] =>
              \A v \in Probes : ScaleLinear(yDomain, YRange, v) = YRange[1]
        /\ barYDomain[1] = barYDomain[2] =>
              \A v \in Probes : ScaleLinear(barYDomain, YRange, v) = YRange[1]

\* 2010 is the only year, its total gross is 0 and the only director's
\* average is 0: all three domains are single points and a point and a bar
\* are drawn
C10_Witness ==
    /\ Completed
    /\ xDomain = <<Num(StartYear), Num(StartYear)>>
    /\ yDomain = <<Num(0), Num(0)>>
    /\ barYDomain = <<Num(0), Num(0)>>
    /\ Len(path) = 1
    /\ Len(bars) = 1

====
